---- MODULE Spec2Model ----
(***************************************************************************)
(* A model of App.py: the course directory cache (courses table, Overpass  *)
(* refresh under a TTL) and the scoring store (rounds and holes tables).   *)
(*                                                                         *)
(* Conventions.                                                            *)
(*  - A Python/SQL value that may be None/NULL is a sequence of length 0   *)
(*    (None) or 1 (Some(v)), so that TLC can compare it with any other.    *)
(*  - A string the code converts (strip, lower, truthiness) is a sequence  *)
(*    of one-character strings, so that the conversion is computed.        *)
(*  - A table is the set of its rows; every constraint of the schema is    *)
(*    applied by the operator that writes the table, as SQLite does.       *)
(*  - Row ids are numbered consecutively.  SQLite's AUTOINCREMENT counter   *)
(*    also advances when an upsert updates a row, so the real ids skip     *)
(*    values; the program only compares course and round ids for equality  *)
(*    and orders round ids, which plain INSERTs number consecutively.      *)
(*    holes.id is read by no query and is left out of the rows.            *)
(*  - Time is counted in ticks of 1/TicksPerSec second: utc_now_iso()      *)
(*    drops the sub-second part, datetime.utcnow() keeps it.               *)
(*  - In SpecDir, SpecNorm and SpecScore every operation runs by itself   *)
(*    to its end and no connection is open between two operations.         *)
(*    SpecConc runs upsert_courses statement by statement on connections   *)
(*    that compete for SQLite's write lock.                                *)
(***************************************************************************)
EXTENDS Integers, Sequences, FiniteSets, TLC

VARIABLES
    courses,   \* the courses table: a set of rows
    rounds,    \* the rounds table
    holes,     \* the holes table
    seq,       \* the number of ids given out so far in courses and rounds
    now,       \* the wall clock, in ticks
    last,      \* the last operation: its name, its arguments, its outcome
    written,   \* history: per (round_id, hole_number), the arguments of the
               \* most recent upsert_hole call that succeeded
    conns      \* the connections of refreshes under way: per connection
               \* the elements it merges, its position, its transaction

vars == <<courses, rounds, holes, seq, now, last, written, conns>>

----------------------------------------------------------------------------
(* Optional values and strings                                             *)

None == <<>>
Some(v) == <<v>>
IsNone(o) == Len(o) = 0
Val(o) == o[1]

\* Python truthiness of an Optional[str]: None and "" are both falsy.
Truthy(o) == ~IsNone(o) /\ Len(Val(o)) > 0

\* x or None, for a str x
OrNone(s) == IF Len(s) > 0 THEN Some(s) ELSE None

\* x or "", for an Optional[str] x
OrEmpty(o) == IF Truthy(o) THEN Val(o) ELSE <<>>

\* The elements of a response, none for a failed request.
OrEmptyList(o) == IF IsNone(o) THEN <<>> ELSE Val(o)

UpperChars == <<"A","B","C","D","E","F","G","H","I","J","K","L","M",
                "N","O","P","Q","R","S","T","U","V","W","X","Y","Z">>
LowerChars == <<"a","b","c","d","e","f","g","h","i","j","k","l","m",
                "n","o","p","q","r","s","t","u","v","w","x","y","z">>
Whitespace == {" ", "\t", "\n"}

UpperSet == {UpperChars[i] : i \in 1..Len(UpperChars)}

\* The lower-case letter of each upper-case one.
LowerOf == [c \in UpperSet |->
               LowerChars[CHOOSE i \in 1..Len(UpperChars) : UpperChars[i] = c]]

\* One letter outside ASCII: str.lower() of Python folds it, LOWER() of
\* SQLite does not.
LowerChar(c) ==
    IF c \in UpperSet THEN LowerOf[c] ELSE IF c = "É" THEN "é" ELSE c

\* str.lower()
Lower(s) == [i \in 1..Len(s) |-> LowerChar(s[i])]

RECURSIVE LStrip(_)
LStrip(s) ==
    IF Len(s) = 0 \/ s[1] \notin Whitespace THEN s ELSE LStrip(Tail(s))

RECURSIVE RStrip(_)
RStrip(s) ==
    IF Len(s) = 0 \/ s[Len(s)] \notin Whitespace THEN s
    ELSE RStrip(SubSeq(s, 1, Len(s) - 1))

\* str.strip(): drops the leading and the trailing whitespace
Strip(s) == RStrip(LStrip(s))

----------------------------------------------------------------------------
(* Configuration and clock                                                 *)

\* Cache freshness in seconds: 7 days.
COURSE_CACHE_TTL_SEC == 7 * 24 * 3600

\* Sub-second resolution of the clock.
TicksPerSec == 2

\* The clock runs over the first seconds and the seconds one TTL later,
\* which is where the staleness test changes its answer.
Seconds == {0, 1, COURSE_CACHE_TTL_SEC, COURSE_CACHE_TTL_SEC + 1}

Instants == {s * TicksPerSec + f : s \in Seconds, f \in 0..(TicksPerSec - 1)}

\* datetime.utcnow().replace(microsecond=0).isoformat() + "Z": the time cut
\* to whole seconds.  The text is fixed-width, so the order of the texts
\* (MAX(updated_at_utc)) is the order of the seconds, and fromisoformat
\* reads the same second back: the value is kept as the second count.
utc_now_iso(t) == t \div TicksPerSec

----------------------------------------------------------------------------
(* Overpass elements                                                       *)

\* el.get("tags") or {}: a missing tag mapping reads as the empty one.
NoTags == [name |-> None, access |-> None, membership |-> None]
TagsOf(el) == IF IsNone(el.tags) THEN NoTags ELSE Val(el.tags)

\* str(tags): Python's repr of the mapping, which names every key and value.
PyStr(tags) == <<"str", tags>>

element_center_lat_lon(el) ==
    IF el.type = Some("node")
    THEN [lat |-> el.lat, lon |-> el.lon]
    ELSE IF IsNone(el.center)
         THEN [lat |-> None, lon |-> None]
         ELSE [lat |-> Val(el.center).lat, lon |-> Val(el.center).lon]

s_private == <<"p","r","i","v","a","t","e">>
s_unknown == <<"u","n","k","n","o","w","n">>
s_yes == <<"y","e","s">>
s_required == <<"r","e","q","u","i","r","e","d">>

s_public == <<"p","u","b","l","i","c">>

\* The normalizer reducing every access value to one of three labels.
normalize_access_three(tags) ==
    LET access == Lower(Strip(OrEmpty(tags.access)))
        membership == Lower(Strip(OrEmpty(tags.membership)))
    IN  IF Len(access) > 0
        THEN (IF access = s_private THEN s_private ELSE s_public)
        ELSE IF membership \in {s_yes, s_required} THEN s_private
        ELSE s_unknown

normalize_access(tags) ==
    LET access == Lower(Strip(OrEmpty(tags.access)))
        membership == Lower(Strip(OrEmpty(tags.membership)))
    IN  IF Len(access) > 0 THEN access
        ELSE IF membership \in {s_yes, s_required} THEN s_private
        ELSE s_unknown

----------------------------------------------------------------------------
(* Schema and connection                                                   *)

\* db() opens a connection and issues no PRAGMA foreign_keys: SQLite then
\* parses the FOREIGN KEY clauses of the schema and does not enforce them.
foreign_keys == FALSE

\* init_db(): the three tables exist and are empty.
EmptyTables ==
    /\ courses = {}
    /\ rounds = {}
    /\ holes = {}
    /\ seq = [courses |-> 0, rounds |-> 0]

\* The courses table without its UNIQUE constraint: nothing conflicts.
course_conflicts_none(rows, osm_type, osm_id) == {}

\* UNIQUE(osm_type, osm_id): the rows an element conflicts with.
course_conflicts(rows, osm_type, osm_id) ==
    {r \in rows : r.osm_type = osm_type /\ r.osm_id = osm_id}

----------------------------------------------------------------------------
(* Directory synchronization                                               *)

\* The statement as INSERT OR IGNORE: a cached row is left as it is.
upsert_course_row_ignore(db, el, tags, t) ==
    IF IsNone(el.type) THEN [db EXCEPT !.ok = FALSE]
    ELSE IF course_conflicts(db.rows, Val(el.type), el.id) # {} THEN db
    ELSE [db EXCEPT
             !.rows = @ \cup {[id |-> db.seq + 1,
                               osm_type |-> Val(el.type),
                               osm_id |-> el.id,
                               name |-> Val(tags.name),
                               lat |-> element_center_lat_lon(el).lat,
                               lon |-> element_center_lat_lon(el).lon,
                               access |-> normalize_access(tags),
                               raw_tags_json |-> PyStr(tags),
                               updated_at_utc |-> utc_now_iso(t)]},
             !.seq = @ + 1]

\* The statement as INSERT OR REPLACE: a cached row is deleted and the
\* element is inserted as a new row, with a new id.
upsert_course_row_replace(db, el, tags, t) ==
    IF IsNone(el.type) THEN [db EXCEPT !.ok = FALSE]
    ELSE [db EXCEPT
             !.rows = (@ \ course_conflicts(db.rows, Val(el.type), el.id))
                      \cup {[id |-> db.seq + 1,
                              osm_type |-> Val(el.type),
                              osm_id |-> el.id,
                              name |-> Val(tags.name),
                              lat |-> element_center_lat_lon(el).lat,
                              lon |-> element_center_lat_lon(el).lon,
                              access |-> normalize_access(tags),
                              raw_tags_json |-> PyStr(tags),
                              updated_at_utc |-> utc_now_iso(t)]},
             !.seq = @ + 1]

\* One INSERT ... ON CONFLICT(osm_type, osm_id) DO UPDATE of upsert_courses.
\* db is [rows, seq, ok]; osm_type is NOT NULL, so an element without a type
\* raises IntegrityError (ok = FALSE).
upsert_course_row(db, el, tags, t) ==
    LET ll == element_center_lat_lon(el)
        hit == IF IsNone(el.type) THEN {}
               ELSE course_conflicts(db.rows, Val(el.type), el.id)
        new == [id |-> db.seq + 1,
                osm_type |-> OrEmpty(el.type),
                osm_id |-> el.id,
                name |-> Val(tags.name),
                lat |-> ll.lat,
                lon |-> ll.lon,
                access |-> normalize_access(tags),
                raw_tags_json |-> PyStr(tags),
                updated_at_utc |-> utc_now_iso(t)]
    IN  IF IsNone(el.type) THEN [db EXCEPT !.ok = FALSE]
        ELSE IF hit = {}
        THEN [db EXCEPT !.rows = @ \cup {new}, !.seq = @ + 1]
        ELSE [db EXCEPT !.rows =
                 (@ \ hit) \cup {[new EXCEPT !.id = r.id] : r \in hit}]

\* The loop with break for continue: an element without a name ends it.
RECURSIVE upsert_loop_break(_, _, _, _, _)
upsert_loop_break(db, elements, i, t, updated) ==
    IF i > Len(elements) THEN [db |-> db, updated |-> updated]
    ELSE LET el == elements[i]
             tags == TagsOf(el)
         IN  IF ~Truthy(tags.name)
             THEN [db |-> db, updated |-> updated]
             ELSE LET d == upsert_course_row(db, el, tags, t)
                  IN  IF d.ok
                      THEN upsert_loop_break(d, elements, i + 1, t,
                                             updated + 1)
                      ELSE [db |-> d, updated |-> updated]

\* The loop of upsert_courses over elements[i..]: an element without a
\* truthy name is skipped; an exception leaves the loop.
RECURSIVE upsert_loop(_, _, _, _, _)
upsert_loop(db, elements, i, t, updated) ==
    IF i > Len(elements) THEN [db |-> db, updated |-> updated]
    ELSE LET el == elements[i]
             tags == TagsOf(el)
         IN  IF ~Truthy(tags.name)
             THEN upsert_loop(db, elements, i + 1, t, updated)
             ELSE LET d == upsert_course_row(db, el, tags, t)
                  IN  IF d.ok
                      THEN upsert_loop(d, elements, i + 1, t, updated + 1)
                      ELSE [db |-> d, updated |-> updated]

\* upsert_courses as a replacement of the cache: the rows whose key is
\* not in the result set are purged.
upsert_courses_purging(rows, sq, elements, t) ==
    LET r == upsert_loop([rows |-> rows, seq |-> sq, ok |-> TRUE],
                         elements, 1, t, 0)
        found == {<<OrEmpty(elements[i].type), elements[i].id>> :
                     i \in {j \in 1..Len(elements) :
                               Truthy(TagsOf(elements[j]).name)}}
    IN  IF r.db.ok
        THEN [rows |-> {c \in r.db.rows : <<c.osm_type, c.osm_id>> \in found},
              seq |-> r.db.seq, ok |-> TRUE, updated |-> r.updated]
        ELSE [rows |-> rows, seq |-> sq, ok |-> FALSE, updated |-> 0]

\* upsert_courses committing after every statement: what was merged
\* before a statement raises stays.
upsert_courses_partial(rows, sq, elements, t) ==
    LET r == upsert_loop([rows |-> rows, seq |-> sq, ok |-> TRUE],
                         elements, 1, t, 0)
    IN  [rows |-> r.db.rows, seq |-> r.db.seq, ok |-> r.db.ok,
         updated |-> r.updated]

\* upsert_courses(elements) at time t on the table rows: the statements run
\* in one transaction that conn.commit() ends after the loop.  When a
\* statement raises, commit is never reached and the connection is dropped
\* with the transaction open, which rolls it back.
upsert_courses(rows, sq, elements, t) ==
    LET r == upsert_loop([rows |-> rows, seq |-> sq, ok |-> TRUE],
                         elements, 1, t, 0)
    IN  IF r.db.ok
        THEN [rows |-> r.db.rows, seq |-> r.db.seq, ok |-> TRUE,
              updated |-> r.updated]
        ELSE [rows |-> rows, seq |-> sq, ok |-> FALSE, updated |-> 0]

\* The query with MIN for MAX: the oldest row decides.
courses_last_updated_min(rows) ==
    IF rows = {} THEN None
    ELSE Some(CHOOSE m \in {r.updated_at_utc : r \in rows} :
                  \A r \in rows : m <= r.updated_at_utc)

\* SELECT MAX(updated_at_utc) FROM courses: None on an empty table.
courses_last_updated(rows) ==
    IF rows = {} THEN None
    ELSE Some(CHOOSE m \in {r.updated_at_utc : r \in rows} :
                  \A r \in rows : r.updated_at_utc <= m)

\* The staleness test with <= for <.
cache_is_fresh_le(lastmax, t) ==
    /\ ~IsNone(lastmax)
    /\ t - Val(lastmax) * TicksPerSec <= COURSE_CACHE_TTL_SEC * TicksPerSec

\* The test of maybe_refresh_courses: age_sec < COURSE_CACHE_TTL_SEC, with
\* now taken untruncated and last read back from the table.
cache_is_fresh(lastmax, t) ==
    /\ ~IsNone(lastmax)
    /\ t - Val(lastmax) * TicksPerSec < COURSE_CACHE_TTL_SEC * TicksPerSec

\* maybe_refresh_courses(lat, lon, radius_m, force) when the cache is fresh
\* and force is not set: the cached courses are used.
RefreshCached(force) ==
    LET lastmax == courses_last_updated(courses)
    IN  /\ ~force /\ cache_is_fresh(lastmax, now)
        /\ last' = [op |-> "maybe_refresh_courses", force |-> force,
                    lastmax |-> lastmax, fetched |-> FALSE,
                    msg |-> "cached", count |-> 0,
                    before |-> Cardinality(courses), request |-> "none"]
        /\ UNCHANGED <<courses, rounds, holes, seq, now, written, conns>>

\* The refresh that empties the cache before it asks the service.
RefreshFetchPurging(force, response) ==
    LET lastmax == courses_last_updated(courses)
        r == upsert_courses({}, seq.courses, OrEmptyList(response), now)
    IN  /\ ~(~force /\ cache_is_fresh(lastmax, now))
        /\ courses' = IF IsNone(response) THEN {} ELSE r.rows
        /\ seq' = IF IsNone(response) THEN seq
                  ELSE [seq EXCEPT !.courses = r.seq]
        /\ last' = [op |-> "maybe_refresh_courses", force |-> force,
                    lastmax |-> lastmax, fetched |-> TRUE,
                    msg |-> IF IsNone(response) \/ ~r.ok THEN "error"
                            ELSE "refreshed",
                    count |-> IF IsNone(response) THEN 0 ELSE r.updated,
                    before |-> Cardinality(courses),
                    request |-> IF IsNone(response) THEN "failed"
                                ELSE "answered"]
        /\ UNCHANGED <<rounds, holes, now, written, conns>>

\* maybe_refresh_courses otherwise, as main() calls it, the exception of a
\* failed request or a failed merge caught and shown.  response is what
\* fetch_courses_overpass returns: None when the request fails, else the
\* elements.
RefreshFetch(force, response) ==
    \E lastmax \in {courses_last_updated(courses)} :
    /\ ~(~force /\ cache_is_fresh(lastmax, now))
    /\ \E r \in {upsert_courses(courses, seq.courses, OrEmptyList(response),
                                 now)} :
        /\ courses' = IF IsNone(response) THEN courses ELSE r.rows
        /\ seq' = IF IsNone(response) THEN seq
                  ELSE [seq EXCEPT !.courses = r.seq]
        /\ last' = [op |-> "maybe_refresh_courses", force |-> force,
                    lastmax |-> lastmax, fetched |-> TRUE,
                    msg |-> IF IsNone(response) \/ ~r.ok THEN "error"
                            ELSE "refreshed",
                    count |-> IF IsNone(response) THEN 0 ELSE r.updated,
                    before |-> Cardinality(courses),
                    request |-> IF IsNone(response) THEN "failed"
                                ELSE "answered"]
        /\ UNCHANGED <<rounds, holes, now, written, conns>>

\* Time passes.
Tick ==
    /\ \E t \in Instants : t > now /\ now' = t
    /\ last' = [op |-> "tick"]
    /\ UNCHANGED <<courses, rounds, holes, seq, written, conns>>

----------------------------------------------------------------------------
(* Connections and the write lock                                          *)

\* The sessions that may refresh at the same time, one connection each.
Connections == {"s1", "s2"}

\* A connection that is not open.
IdleConn ==
    [pc |-> "idle", elements |-> <<>>, i |-> 1, rows |-> {}, seq |-> 0,
     locked |-> FALSE, updated |-> 0, keys |-> {}]

\* A database whose writers do not exclude each other.
may_write_unlocked(cs, c) == TRUE

\* sqlite3.connect(DB_PATH) of db(): the connection c may execute a write
\* when no other connection has a write transaction open.
may_write(cs, c) == \A d \in Connections \ {c} : ~cs[d].locked

\* The database as the connection c sees it: its own transaction when it
\* has written, else what is committed.
view(cs, c, rows, sq) ==
    IF cs[c].locked THEN [rows |-> cs[c].rows, seq |-> cs[c].seq, ok |-> TRUE]
    ELSE [rows |-> rows, seq |-> sq, ok |-> TRUE]

----------------------------------------------------------------------------
(* Course listing                                                          *)

s_permissive == <<"p","e","r","m","i","s","s","i","v","e">>
s_customers == <<"c","u","s","t","o","m","e","r","s">>

\* access_label of load_courses_df: the label shown for a stored access.
access_label(a) ==
    LET w == Lower(IF Truthy(a) THEN Val(a) ELSE s_unknown)
    IN  IF w = s_private THEN "Private"
        ELSE IF w \in {s_yes, s_permissive, s_customers} THEN "Public/Playable"
        ELSE "Unknown"

\* name + " — " + access_label: the two parts, which the text determines
\* (no access label contains the separator).
dropdown_label(r) == <<r.name, access_label(Some(r.access))>>

\* LOWER() of SQLite: the ASCII letters are folded, no other character.
sql_lower(s) ==
    [i \in 1..Len(s) |-> IF s[i] \in UpperSet THEN LowerOf[s[i]] ELSE s[i]]

\* The code point of a character, which orders text as SQLite compares it
\* (BINARY, on UTF-8): blank, upper case, lower case, then beyond ASCII.
CharCode(c) ==
    IF c \in UpperSet
    THEN 64 + CHOOSE i \in 1..Len(UpperChars) : UpperChars[i] = c
    ELSE IF \E i \in 1..Len(LowerChars) : LowerChars[i] = c
    THEN 96 + CHOOSE i \in 1..Len(LowerChars) : LowerChars[i] = c
    ELSE IF c = "É" THEN 201
    ELSE IF c = "é" THEN 233
    ELSE 32

\* The rank of a text among the texts of at most width characters, in the
\* order SQLite compares text: character by character, a prefix first.
RECURSIVE TextRank(_, _)
TextRank(s, width) ==
    IF width = 0 THEN 0
    ELSE IF Len(s) = 0 THEN 0
    ELSE CharCode(s[1]) * (256 ^ (width - 1)) + TextRank(Tail(s), width - 1)

\* The length of the longest name of the table.
NameWidth(rows) ==
    IF rows = {} THEN 0
    ELSE CHOOSE n \in {Len(r.name) : r \in rows} :
             \A r \in rows : Len(r.name) <= n

\* A row of the data frame of load_courses_df.
course_frame_row(c) ==
    [id |-> c.id, name |-> c.name, access |-> c.access, lat |-> c.lat,
     lon |-> c.lon, updated_at_utc |-> c.updated_at_utc,
     access_label |-> access_label(Some(c.access)),
     dropdown_label |-> dropdown_label(c)]

\* ORDER BY where keys may be equal: the sequences of the rows of a set of
\* <<sort key, row>> pairs in ascending order of their keys, the rows of
\* one key in any order.
RECURSIVE Orderings(_)
Orderings(pairs) ==
    IF pairs = {} THEN {<<>>}
    ELSE UNION {{<<m[2]>> \o rest : rest \in Orderings(pairs \ {m})} :
                   m \in {x \in pairs : \A y \in pairs : x[1] <= y[1]}}

\* load_courses_df(): the data frames the query may return, the rows in
\* the order of LOWER(name); the order of rows of one LOWER(name) is left
\* to SQLite.
load_courses_df(rows) ==
    Orderings({<<TextRank(sql_lower(c.name), NameWidth(rows)),
                 course_frame_row(c)>> : c \in rows})

AccessLabels == {"Private", "Public/Playable", "Unknown"}

\* The rows of the data frame df whose access_label is in access_filter.
RECURSIVE filtered(_, _)
filtered(df, access_filter) ==
    IF Len(df) = 0 THEN <<>>
    ELSE IF df[1].access_label \in access_filter
    THEN <<df[1]>> \o filtered(Tail(df), access_filter)
    ELSE filtered(Tail(df), access_filter)

----------------------------------------------------------------------------
(* Scoring store                                                           *)

MinHoleNumber == 1
MaxHoleNumber == 18
MinStrokes == 1
MaxStrokes == 25

\* The holes of the entry form: range(1, 19).
NumHoles == 18

\* The CHECK constraints of holes with strokes left unchecked.
holes_check_loose(hole_number, strokes) ==
    hole_number >= MinHoleNumber /\ hole_number <= MaxHoleNumber

\* CHECK(hole_number BETWEEN 1 AND 18), CHECK(strokes BETWEEN 1 AND 25)
holes_check(hole_number, strokes) ==
    /\ hole_number >= MinHoleNumber /\ hole_number <= MaxHoleNumber
    /\ strokes >= MinStrokes /\ strokes <= MaxStrokes

\* UNIQUE(round_id, hole_number): the rows a hole conflicts with.
hole_conflicts(rows, round_id, hole_number) ==
    {h \in rows : h.round_id = round_id /\ h.hole_number = hole_number}

\* create_round(course_id, played_on, tees, notes) at time t: one INSERT,
\* committed.  The FOREIGN KEY is checked only when the connection enforces
\* foreign keys.
create_round(rows, sq, course_rows, call, t) ==
    IF foreign_keys /\ call.course_id \notin {c.id : c \in course_rows}
    THEN [rows |-> rows, seq |-> sq, ok |-> FALSE, round_id |-> None]
    ELSE [rows |-> rows \cup {[id |-> sq + 1,
                               played_on |-> call.played_on,
                               course_id |-> call.course_id,
                               tees |-> OrNone(call.tees),
                               round_notes |-> OrNone(call.notes),
                               created_at_utc |-> utc_now_iso(t)]},
          seq |-> sq + 1, ok |-> TRUE, round_id |-> Some(sq + 1)]

\* The upsert as ON CONFLICT DO NOTHING: the first row of a key stays.
upsert_hole_keep_first(rows, round_rows, call) ==
    IF ~holes_check(call.hole_number, call.strokes)
    THEN [rows |-> rows, ok |-> FALSE]
    ELSE IF hole_conflicts(rows, call.round_id, call.hole_number) # {}
    THEN [rows |-> rows, ok |-> TRUE]
    ELSE [rows |-> rows \cup {[round_id |-> call.round_id,
                               hole_number |-> call.hole_number,
                               strokes |-> call.strokes,
                               putts |-> call.putts,
                               penalties |-> call.penalties,
                               hole_comment |-> OrNone(call.comment)]},
          ok |-> TRUE]

\* upsert_hole(round_id, hole_number, strokes, putts, penalties, comment):
\* one INSERT ... ON CONFLICT(round_id, hole_number) DO UPDATE, committed.
\* A CHECK that fails raises IntegrityError before anything is written.
upsert_hole(rows, round_rows, call) ==
    LET hit == hole_conflicts(rows, call.round_id, call.hole_number)
        new == [round_id |-> call.round_id,
                hole_number |-> call.hole_number,
                strokes |-> call.strokes,
                putts |-> call.putts,
                penalties |-> call.penalties,
                hole_comment |-> OrNone(call.comment)]
    IN  IF ~holes_check(call.hole_number, call.strokes)
        THEN [rows |-> rows, ok |-> FALSE]
        ELSE IF foreign_keys /\ call.round_id \notin {r.id : r \in round_rows}
        THEN [rows |-> rows, ok |-> FALSE]
        ELSE [rows |-> (rows \ hit) \cup {new}, ok |-> TRUE]

\* The history after a call: the arguments replace those kept for the key.
record_call(hist, call, ok) ==
    IF ok
    THEN {w \in hist : ~(w.round_id = call.round_id
                          /\ w.hole_number = call.hole_number)} \cup {call}
    ELSE hist

\* ORDER BY: the rows of a set of <<sort key, row>> pairs in ascending
\* order of their keys, which are distinct.
RECURSIVE OrderBy(_)
OrderBy(pairs) ==
    IF pairs = {} THEN <<>>
    ELSE LET m == CHOOSE x \in pairs : \A y \in pairs : x[1] <= y[1]
         IN  <<m[2]>> \o OrderBy(pairs \ {m})

\* The listing without its WHERE clause: the holes of every round.
load_holes_df_all(rows, round_id) ==
    OrderBy({<<h.hole_number * 1000 + h.round_id,
               [hole_number |-> h.hole_number, strokes |-> h.strokes,
                putts |-> h.putts, penalties |-> h.penalties,
                hole_comment |-> h.hole_comment]>> : h \in rows})

\* load_holes_df(round_id): the holes of the round by hole number.
load_holes_df(rows, round_id) ==
    OrderBy({<<h.hole_number,
               [hole_number |-> h.hole_number, strokes |-> h.strokes,
                putts |-> h.putts, penalties |-> h.penalties,
                hole_comment |-> h.hole_comment]>> :
                 h \in {x \in rows : x.round_id = round_id}})

\* load_rounds_df(): the rounds joined with their course, newest play date
\* first and, on one date, newest round first.  A play date is the day
\* count of its ISO text, which sorts as the date does.
load_rounds_df(round_rows, course_rows) ==
    OrderBy({<<0 - (p[1].played_on * 1000 + p[1].id),
               [round_id |-> p[1].id, played_on |-> p[1].played_on,
                course |-> p[2].name, tees |-> p[1].tees,
                round_notes |-> p[1].round_notes,
                created_at_utc |-> p[1].created_at_utc]>> :
                 p \in {q \in round_rows \X course_rows :
                           q[2].id = q[1].course_id}})

\* holes_df["strokes"].sum()
RECURSIVE SumStrokes(_)
SumStrokes(df) ==
    IF Len(df) = 0 THEN 0 ELSE df[1].strokes + SumStrokes(Tail(df))

\* The optional number kept as it is entered.
positive_or_none_keep(n) == Some(n)

\* putts if putts > 0 else None
positive_or_none(n) == IF n > 0 THEN Some(n) ELSE None

\* The upsert_hole call main() makes for hole h of the entry form.
hole_call(round_id, h, entry) ==
    [round_id |-> round_id, hole_number |-> h, strokes |-> entry.strokes,
     putts |-> positive_or_none(entry.putts),
     penalties |-> positive_or_none(entry.penalties),
     comment |-> entry.comment]

\* The loop of main() over hole_data[h..]: each upsert_hole commits by
\* itself; the first one that raises ends the loop.
RECURSIVE save_holes(_, _, _, _, _, _)
save_holes(rows, hist, round_rows, round_id, card, h) ==
    IF h > NumHoles THEN [rows |-> rows, hist |-> hist, ok |-> TRUE]
    ELSE LET call == hole_call(round_id, h, card[h])
             r == upsert_hole(rows, round_rows, call)
         IN  IF r.ok
             THEN save_holes(r.rows, record_call(hist, call, TRUE),
                             round_rows, round_id, card, h + 1)
             ELSE [rows |-> rows, hist |-> hist, ok |-> FALSE]

----------------------------------------------------------------------------
(* The upstream: what the Overpass service may answer                      *)

Str1(c) == <<c>>
Tags(name, access, membership) ==
    [name |-> name, access |-> access, membership |-> membership]
Coord(lat, lon) == [lat |-> lat, lon |-> lon]

\* A node with its own coordinates, tagged private.
NodeA ==
    [type |-> Some("node"), id |-> 1, lat |-> Some(39), lon |-> Some(-75),
     center |-> None,
     tags |-> Some(Tags(Some(Str1("a")),
                        Some(<<" ","P","r","i","v","a","t","e">>), None))]

\* The same node later: renamed, moved, opened to the public.
NodeB ==
    [type |-> Some("node"), id |-> 1, lat |-> Some(40), lon |-> Some(-75),
     center |-> Some(Coord(Some(41), Some(-76))),
     tags |-> Some(Tags(Some(Str1("B")), Some(s_yes), None))]

\* A way without a computed centre, a members' club.
WayB ==
    [type |-> Some("way"), id |-> 1, lat |-> Some(39), lon |-> Some(-75),
     center |-> None,
     tags |-> Some(Tags(Some(Str1("B")), None,
                        Some(<<"R","e","q","u","i","r","e","d">>)))]

\* The same way with an empty name.
WayUnnamed ==
    [type |-> Some("way"), id |-> 1, lat |-> None, lon |-> None,
     center |-> Some(Coord(Some(40), Some(-76))),
     tags |-> Some(Tags(Some(<<>>), Some(s_private), None))]

\* A relation without tags.
RelationUntagged ==
    [type |-> Some("relation"), id |-> 1, lat |-> None, lon |-> None,
     center |-> Some(Coord(Some(39), Some(-76))), tags |-> None]

\* An element without a type.
Untyped ==
    [type |-> None, id |-> 1, lat |-> Some(39), lon |-> Some(-75),
     center |-> None,
     tags |-> Some(Tags(Some(Str1("a")), None, None))]

SampleElements ==
    {NodeA, NodeB, WayB, WayUnnamed, RelationUntagged, Untyped}

\* The longest answer of the service.
MaxElems == 2

Responses == UNION {[1..n -> SampleElements] : n \in 0..MaxElems}

----------------------------------------------------------------------------
(* Specifications                                                          *)

Init ==
    /\ EmptyTables
    /\ now = 0
    /\ last = [op |-> "init_db"]
    /\ written = {}
    /\ conns = [c \in Connections |-> IdleConn]

AnyResponse == {None} \cup {Some(r) : r \in Responses}

NextDir ==
    \/ Tick
    \/ \E force \in BOOLEAN : RefreshCached(force)
    \/ \E force \in BOOLEAN, response \in AnyResponse :
           RefreshFetch(force, response)

\* The course directory: refreshes as time passes.
SpecDir == Init /\ [][NextDir]_vars

\* The tag values the normalizer is run on: absent, empty, blank, padded,
\* in either case, and words outside its vocabulary.
AccessValues ==
    {None, Some(<<>>), Some(<<" ">>),
     Some(s_private), Some(<<"P","r","i","v","a","t","e">>),
     Some(<<" ","P","R","I","V","A","T","E","\t">>),
     Some(s_yes), Some(<<"Y","E","S"," ">>),
     Some(<<"p","e","r","m","i","s","s","i","v","e">>),
     Some(<<"n","o">>), Some(s_unknown)}

MembershipValues ==
    {None, Some(<<>>),
     Some(s_yes), Some(<<"Y","e","s">>),
     Some(s_required), Some(<<" ","R","E","Q","U","I","R","E","D">>),
     Some(<<"n","o">>), Some(<<"m","e","m","b","e","r","s">>)}

\* A way with a computed centre, carrying the given tags.
TaggedWay(access, membership) ==
    [type |-> Some("way"), id |-> 2, lat |-> None, lon |-> None,
     center |-> Some(Coord(Some(40), Some(-76))),
     tags |-> Some(Tags(Some(Str1("a")), access, membership))]

NextNorm ==
    \E access \in AccessValues, membership \in MembershipValues :
        RefreshFetch(TRUE, Some(<<TaggedWay(access, membership)>>))

\* The directory refreshed, on demand, with one course under every tagging.
SpecNorm == Init /\ [][NextNorm]_vars

----------------------------------------------------------------------------
(* Concurrent refreshes                                                    *)

\* What the service answers the concurrent sessions: result sets that
\* share keys, one without a storable element, one whose merge raises.
ConcResponses ==
    {<<NodeA, WayB>>, <<NodeB>>, <<WayB, NodeB>>, <<RelationUntagged>>,
     <<WayUnnamed, NodeA>>, <<NodeA, Untyped>>}

\* maybe_refresh_courses up to the call of upsert_courses: the cache is
\* stale or force is set, the request is answered, db() opens a connection.
BeginMerge(c, force, elements) ==
    /\ conns[c].pc = "idle"
    /\ ~(~force /\ cache_is_fresh(courses_last_updated(courses), now))
    /\ conns' = [conns EXCEPT ![c] = [IdleConn EXCEPT !.pc = "merging",
                                                      !.elements = elements]]
    /\ last' = [op |-> "db", conn |-> c]
    /\ UNCHANGED <<courses, rounds, holes, seq, now, written>>

\* One turn of the loop of upsert_courses on connection c: an element
\* without a name is skipped; the statement of a named one opens the
\* transaction if none is open, which takes the write lock, and runs in it.
\* A statement that raises leaves upsert_courses with the transaction open.
MergeElement(c) ==
    LET cn == conns[c]
        el == cn.elements[cn.i]
        tags == TagsOf(el)
        d == upsert_course_row(view(conns, c, courses, seq.courses),
                               el, tags, now)
    IN  /\ cn.pc = "merging"
        /\ cn.i <= Len(cn.elements)
        /\ Truthy(tags.name) => may_write(conns, c)
        /\ conns' = [conns EXCEPT ![c] =
              IF ~Truthy(tags.name) THEN [cn EXCEPT !.i = @ + 1]
              ELSE IF d.ok
              THEN [cn EXCEPT !.i = @ + 1, !.rows = d.rows, !.seq = d.seq,
                              !.locked = TRUE, !.updated = @ + 1,
                              !.keys = @ \cup {<<Val(el.type), el.id>>}]
              ELSE [cn EXCEPT !.pc = "failed", !.locked = TRUE,
                              !.rows = d.rows, !.seq = d.seq]]
        /\ last' = [op |-> "execute", conn |-> c,
                    ok |-> ~Truthy(tags.name) \/ d.ok]
        /\ UNCHANGED <<courses, rounds, holes, seq, now, written>>

\* The statement of connection c waited for the write lock longer than the
\* timeout of the connection: "database is locked" is raised.
LockTimeout(c) ==
    LET cn == conns[c]
    IN  /\ cn.pc = "merging"
        /\ cn.i <= Len(cn.elements)
        /\ Truthy(TagsOf(cn.elements[cn.i]).name)
        /\ ~may_write(conns, c)
        /\ conns' = [conns EXCEPT ![c] = IdleConn]
        /\ last' = [op |-> "upsert_courses", conn |-> c, ok |-> FALSE,
                    count |-> 0, keys |-> {}, elements |-> cn.elements]
        /\ UNCHANGED <<courses, rounds, holes, seq, now, written>>

\* conn.commit() and conn.close() after the loop: the transaction of the
\* connection, if it opened one, becomes the table.
CommitMerge(c) ==
    LET cn == conns[c]
    IN  /\ cn.pc = "merging"
        /\ cn.i > Len(cn.elements)
        /\ courses' = IF cn.locked THEN cn.rows ELSE courses
        /\ seq' = IF cn.locked THEN [seq EXCEPT !.courses = cn.seq] ELSE seq
        /\ conns' = [conns EXCEPT ![c] = IdleConn]
        /\ last' = [op |-> "upsert_courses", conn |-> c, ok |-> TRUE,
                    count |-> cn.updated, keys |-> cn.keys,
                    elements |-> cn.elements]
        /\ UNCHANGED <<rounds, holes, now, written>>

\* The connection of a merge that raised is collected: its transaction is
\* rolled back and the write lock is free again.
CollectConnection(c) ==
    /\ conns[c].pc = "failed"
    /\ conns' = [conns EXCEPT ![c] = IdleConn]
    /\ last' = [op |-> "rollback", conn |-> c]
    /\ UNCHANGED <<courses, rounds, holes, seq, now, written>>

NextConc ==
    \/ \E force \in BOOLEAN : RefreshCached(force)
    \/ \E c \in Connections, force \in BOOLEAN, elements \in ConcResponses :
           BeginMerge(c, force, elements)
    \/ \E c \in Connections : MergeElement(c)
    \/ \E c \in Connections : LockTimeout(c)
    \/ \E c \in Connections : CommitMerge(c)
    \/ \E c \in Connections : CollectConnection(c)

\* Refreshes of two sessions, their statements interleaved.
SpecConc == Init /\ [][NextConc]_vars

----------------------------------------------------------------------------
(* The course listing in use                                               *)

\* A node of the given id, name and access tag.
ListedNode(id, name, access) ==
    [type |-> Some("node"), id |-> id, lat |-> Some(39), lon |-> Some(-75),
     center |-> None, tags |-> Some(Tags(Some(name), access, None))]

\* The courses that get listed: names in both cases, in and beyond ASCII,
\* every access label and two courses of one name and label.
ListedElements ==
    {ListedNode(1, <<"b","a">>, Some(s_private)),
     ListedNode(2, <<"B","b">>, Some(s_yes)),
     ListedNode(3, <<"a">>, None),
     ListedNode(4, <<"a">>, Some(<<"n","o">>)),
     ListedNode(5, <<"É","z">>, Some(s_permissive)),
     ListedNode(6, <<"é","a">>, Some(s_unknown))}

\* A forced refresh that is answered with one of the listed courses.
CacheListed(el) == RefreshFetch(TRUE, Some(<<el>>))

\* load_courses_df() and the filter of main(): the listing is read and
\* restricted to the labels selected.
ListCourses ==
    /\ \E df \in load_courses_df(courses) :
       \E access_filter \in SUBSET AccessLabels :
          last' = [op |-> "load_courses_df", filter |-> access_filter,
                   df |-> filtered(df, access_filter)]
    /\ UNCHANGED <<courses, rounds, holes, seq, now, written, conns>>

NextList ==
    \/ \E el \in ListedElements : CacheListed(el)
    \/ ListCourses

\* The directory filled and listed.
SpecList == Init /\ [][NextList]_vars

----------------------------------------------------------------------------
(* The scoring store in use                                                *)

\* The rounds a run creates.
MaxRounds == 2

RoundCall(course_id, played_on, tees, notes) ==
    [course_id |-> course_id, played_on |-> played_on, tees |-> tees,
     notes |-> notes]

\* create_round calls: on either course of the first response and on a
\* course id the cache never holds.
RoundCalls ==
    {RoundCall(1, 1, <<>>, <<>>),
     RoundCall(2, 2, <<"B","l","u","e">>, <<"w","e","t">>),
     RoundCall(3, 1, <<>>, <<>>)}

HoleCall(round_id, hole_number, strokes, putts, penalties, comment) ==
    [round_id |-> round_id, hole_number |-> hole_number,
     strokes |-> strokes, putts |-> putts, penalties |-> penalties,
     comment |-> comment]

\* upsert_hole calls: first writes and overwrites of one key, the bounds
\* of both ranges from inside and from outside, zeros, both rounds.
HoleCalls ==
    {HoleCall(1, 5, 4, None, None, <<>>),
     HoleCall(1, 5, 6, Some(2), Some(1), Str1("x")),
     HoleCall(1, 5, 25, Some(0), Some(0), <<>>),
     HoleCall(1, 18, 1, Some(0), None, Str1("x")),
     HoleCall(2, 1, 4, None, Some(1), <<>>),
     HoleCall(1, 5, 26, Some(2), None, Str1("x")),
     HoleCall(1, 5, 0, None, None, <<>>),
     HoleCall(1, 19, 4, None, None, <<>>),
     HoleCall(1, 0, 4, Some(2), Some(1), Str1("x")),
     HoleCall(2, 19, 26, None, None, <<>>),
     HoleCall(2, 1, 26, Some(0), Some(0), <<>>)}

Entry(strokes, putts, penalties, comment) ==
    [strokes |-> strokes, putts |-> putts, penalties |-> penalties,
     comment |-> comment]

\* The entry form as it opens: 4 strokes, nothing else, on every hole.
DefaultCard == [h \in 1..NumHoles |-> Entry(4, 0, 0, <<>>)]

ExampleStrokes == <<4, 5, 3, 4, 5, 4, 3, 5, 4, 4, 5, 3, 4, 5, 4, 4, 3, 5>>

\* A card of 74 strokes, with putts on two holes in three, a penalty on
\* hole 5 and a comment on hole 18.
ExampleCard ==
    [h \in 1..NumHoles |->
        Entry(ExampleStrokes[h], h % 3, IF h = 5 THEN 1 ELSE 0,
              IF h = 18 THEN Str1("x") ELSE <<>>)]

Scorecards == {DefaultCard, ExampleCard}

\* The first answer of the service: the node and the way.
FirstResponse == <<NodeA, WayB>>

\* The refresh that fills the cache the rounds are played on.
PrimeCache == RefreshFetch(TRUE, Some(FirstResponse))

\* create_round called by itself.
CreateRound(call) ==
    LET r == create_round(rounds, seq.rounds, courses, call, now)
    IN  /\ seq.rounds < MaxRounds
        /\ rounds' = r.rows
        /\ seq' = [seq EXCEPT !.rounds = r.seq]
        /\ last' = [op |-> "create_round", args |-> call, ok |-> r.ok,
                    round_id |-> r.round_id]
        /\ UNCHANGED <<courses, holes, now, written, conns>>

\* upsert_hole called by itself.
UpsertHole(call) ==
    LET r == upsert_hole(holes, rounds, call)
    IN  /\ holes' = r.rows
        /\ written' = record_call(written, call, r.ok)
        /\ last' = [op |-> "upsert_hole", args |-> call, ok |-> r.ok]
        /\ UNCHANGED <<courses, rounds, seq, now, conns>>

\* The "Save round" button of main(): the course is the first row of the
\* listing that carries the selected label, which the ORDER BY leaves open
\* among rows of one name; then create_round, then upsert_hole per hole.
SaveRound(label, card, played_on, tees, notes) ==
    /\ seq.rounds < MaxRounds
    /\ \E c \in courses :
          /\ dropdown_label(c) = label
          /\ LET cr == create_round(rounds, seq.rounds, courses,
                                    RoundCall(c.id, played_on, tees, notes),
                                    now)
                 sh == save_holes(holes, written, cr.rows,
                                  seq.rounds + 1, card, 1)
             IN  /\ rounds' = cr.rows
                 /\ seq' = [seq EXCEPT !.rounds = cr.seq]
                 /\ holes' = IF cr.ok THEN sh.rows ELSE holes
                 /\ written' = IF cr.ok THEN sh.hist ELSE written
                 /\ last' = [op |-> "save_round", card |-> card,
                             course_id |-> c.id, round_id |-> cr.round_id,
                             ok |-> cr.ok /\ sh.ok]
    /\ UNCHANGED <<courses, now, conns>>

\* The history of main(): a round of the listing is selected and its holes
\* and their total are shown; without holes no total is shown.
ViewRound(round_id) ==
    LET rounds_df == load_rounds_df(rounds, courses)
        holes_df == load_holes_df(holes, round_id)
    IN  /\ \E i \in 1..Len(rounds_df) : rounds_df[i].round_id = round_id
        /\ last' = [op |-> "view_round", round_id |-> round_id,
                    shown |-> Len(holes_df),
                    total |-> IF Len(holes_df) = 0 THEN None
                              ELSE Some(SumStrokes(holes_df))]
        /\ UNCHANGED <<courses, rounds, holes, seq, now, written, conns>>

NextScore ==
    \/ PrimeCache
    \/ \E call \in RoundCalls : CreateRound(call)
    \/ \E call \in HoleCalls : UpsertHole(call)
    \/ \E c \in courses, card \in Scorecards :
           SaveRound(dropdown_label(c), card, 1, <<>>, <<>>)
    \/ \E round_id \in 1..MaxRounds : ViewRound(round_id)

\* The scoring store: rounds and holes written and read back.
SpecScore == Init /\ [][NextScore]_vars

----------------------------------------------------------------------------
(* Refreshes of a directory that rounds are played on                      *)

\* A forced refresh that the service answers.
Resync(elements) == RefreshFetch(TRUE, Some(elements))

\* One second passes, once.
NextSecond == Tick /\ now' = TicksPerSec

NextSync ==
    \/ NextSecond
    \/ \E elements \in ConcResponses : Resync(elements)
    \/ \E call \in RoundCalls : CreateRound(call)
    \/ \E c \in courses :
           SaveRound(dropdown_label(c), DefaultCard, 1, <<>>, <<>>)

\* Rounds are saved and the directory is refreshed, in any order.
SpecSync == Init /\ [][NextSync]_vars

----------------------------------------------------------------------------
(* The save-round flow of main()                                           *)

\* Three courses of the service: two of one name and one access label,
\* and one of another name.
TwinElements ==
    {ListedNode(3, <<"a">>, None),
     ListedNode(4, <<"a">>, Some(<<"n","o">>)),
     ListedNode(1, <<"b","a">>, Some(s_private))}

\* filtered[filtered["dropdown_label"] == course_label].iloc[0]
RECURSIVE first_with_label(_, _)
first_with_label(df, course_label) ==
    IF df[1].dropdown_label = course_label THEN df[1]
    ELSE first_with_label(Tail(df), course_label)

\* The form of main() saved: the listing is loaded and filtered, the user
\* selects entry i of the selectbox, which returns the text of the entry;
\* the course is the first row of the listing with that text; then
\* create_round, then upsert_hole for each hole of the card.
SaveSelected(access_filter, i, card) ==
    /\ seq.rounds < MaxRounds
    /\ \E df \in load_courses_df(courses) :
       \E f \in {filtered(df, access_filter)} :
          /\ i \in 1..Len(f)
          /\ LET course_label == f[i].dropdown_label
                 selected_row == first_with_label(f, course_label)
                 cr == create_round(rounds, seq.rounds, courses,
                                    RoundCall(selected_row.id, 1, <<>>, <<>>),
                                    now)
                 sh == save_holes(holes, written, cr.rows,
                                  seq.rounds + 1, card, 1)
             IN  /\ rounds' = cr.rows
                 /\ seq' = [seq EXCEPT !.rounds = cr.seq]
                 /\ holes' = IF cr.ok THEN sh.rows ELSE holes
                 /\ written' = IF cr.ok THEN sh.hist ELSE written
                 /\ last' = [op |-> "save_selected", entry |-> f[i].id,
                             course_id |-> selected_row.id,
                             round_id |-> cr.round_id,
                             ok |-> cr.ok /\ sh.ok]
    /\ UNCHANGED <<courses, now, conns>>

NextSave ==
    \/ \E el \in TwinElements : CacheListed(el)
    \/ \E access_filter \in SUBSET AccessLabels, i \in 1..3,
          card \in Scorecards : SaveSelected(access_filter, i, card)

\* The directory filled and rounds saved from the form.
SpecSave == Init /\ [][NextSave]_vars

----------------------------------------------------------------------------
(* Properties of the course directory                                      *)

CourseKey(r) == <<r.osm_type, r.osm_id>>
CourseKeys(rows) == {CourseKey(r) : r \in rows}
NoDuplicateCourses(rows) ==
    \A r1, r2 \in rows : CourseKey(r1) = CourseKey(r2) => r1 = r2

LaterInstants == {now} \cup {t \in Instants : \A u \in Instants : u <= t}

\* C1: running the synchronization twice in a row with the same element
\* set leaves no two Course rows with the same (osm_type, osm_id) and the
\* second run leaves the number of rows unchanged, for every element set
\* and every cache content: from any reachable cache, the first run on a
\* response, then the second on the same response, at once or later.
C1_SyncTwiceIdempotent ==
    /\ NoDuplicateCourses(courses)
    /\ \A resp \in Responses :
          \A first \in {upsert_courses(courses, seq.courses, resp, now)} :
          \A t2 \in LaterInstants :
          \A second \in {upsert_courses(first.rows, first.seq, resp, t2)} :
              first.ok =>
                 /\ second.ok
                 /\ NoDuplicateCourses(first.rows)
                 /\ NoDuplicateCourses(second.rows)
                 /\ Cardinality(second.rows) = Cardinality(first.rows)
                 /\ CourseKeys(second.rows) = CourseKeys(first.rows)

\* A refresh has stored two elements over a cache that already held two
\* courses and still holds two: both were merged into their rows.
C1_Witness ==
    /\ last.op = "maybe_refresh_courses"
    /\ last.msg = "refreshed"
    /\ last.count = 2
    /\ last.before = 2
    /\ Cardinality(courses) = 2

\* The element el can be stored: it has a type and a name.
Storable(el) == ~IsNone(el.type) /\ Truthy(TagsOf(el).name)

\* C2: when a synchronized element's (osm_type, osm_id) is already cached,
\* the merge overwrites that row's name, coordinates, access, raw tags and
\* updated_at with the element's values, keeps its id and every other row,
\* and creates no second row with that key.
C2_MergeOverwrites ==
    \A el \in SampleElements :
        (Storable(el) /\ <<Val(el.type), el.id>> \in CourseKeys(courses)) =>
            LET key == <<Val(el.type), el.id>>
                tags == Val(el.tags)
                res == upsert_courses(courses, seq.courses, <<el>>, now)
                old == {r \in courses : CourseKey(r) = key}
                new == {r \in res.rows : CourseKey(r) = key}
            IN  /\ res.ok
                /\ res.updated = 1
                /\ Cardinality(new) = 1
                /\ res.rows \ new = courses \ old
                /\ \A r \in new :
                      /\ {o.id : o \in old} = {r.id}
                      /\ r.name = Val(tags.name)
                      /\ r.lat = IF el.type = Some("node") THEN el.lat
                                 ELSE IF IsNone(el.center) THEN None
                                 ELSE Val(el.center).lat
                      /\ r.lon = IF el.type = Some("node") THEN el.lon
                                 ELSE IF IsNone(el.center) THEN None
                                 ELSE Val(el.center).lon
                      /\ r.access = normalize_access(tags)
                      /\ r.raw_tags_json = PyStr(tags)
                      /\ r.updated_at_utc * TicksPerSec <= now
                      /\ now < (r.updated_at_utc + 1) * TicksPerSec

\* One TTL after it was first cached as "a", node 1 has been merged again
\* under its new name into the same row, the only one.
C2_Witness ==
    /\ last.op = "maybe_refresh_courses"
    /\ last.msg = "refreshed"
    /\ last.before = 1
    /\ last.lastmax = Some(0)
    /\ courses # {}
    /\ \A r \in courses :
          /\ r.id = 1
          /\ r.osm_type = "node"
          /\ r.name = Str1("B")
          /\ r.access = s_yes
          /\ r.updated_at_utc = COURSE_CACHE_TTL_SEC

\* C3: with a non-empty cache whose newest updated_at is T and force not
\* set, maybe_refresh_courses called earlier than T + TTL (at T + TTL - 1,
\* for one) is a cache hit that makes no request, and called at T + TTL or
\* later it makes the request and merges what the service answers.
C3_TTLGate ==
    (last.op = "maybe_refresh_courses" /\ ~last.force /\ ~IsNone(last.lastmax))
    => LET T == Val(last.lastmax)
           D == COURSE_CACHE_TTL_SEC
       IN  /\ now < (T + D) * TicksPerSec
                => ~last.fetched /\ last.msg = "cached"
           /\ now = (T + D - 1) * TicksPerSec => ~last.fetched
           /\ now >= (T + D) * TicksPerSec
                => last.fetched /\ last.msg \in {"refreshed", "error"}
           /\ now = (T + D) * TicksPerSec => last.fetched

\* A refresh that was not forced, exactly one TTL after the second 1 at
\* which the cache was last written, made the request and merged.
C3_Witness ==
    /\ last.op = "maybe_refresh_courses"
    /\ ~last.force
    /\ last.lastmax = Some(1)
    /\ now = (1 + COURSE_CACHE_TTL_SEC) * TicksPerSec
    /\ last.fetched
    /\ last.msg = "refreshed"
    /\ last.count > 0

\* The tags a row was stored with.
RawTags(r) == r.raw_tags_json[2]

\* The access tag as the normalizer reads it: stripped and lower-cased,
\* empty when the tag is absent.
AccessWord(tags) ==
    IF IsNone(tags.access) THEN <<>> ELSE Lower(Strip(Val(tags.access)))
MembershipWord(tags) ==
    IF IsNone(tags.membership) THEN <<>> ELSE Lower(Strip(Val(tags.membership)))

\* C4 as stated: every stored Course has access private, public or
\* unknown, access "yes" (or any other non-empty value than private)
\* being stored as public.
C4_ThreeLabels ==
    \A r \in courses :
        /\ r.access \in {s_private, s_public, s_unknown}
        /\ AccessWord(RawTags(r)) \notin {<<>>, s_private}
              => r.access = s_public

\* C4, amended: the normalizer is total and yields a non-empty lower-case
\* word: the access tag itself, stripped and lower-cased, when that is not
\* empty (private for "private", yes for "yes"); else private when the
\* membership tag, stripped and lower-cased, is yes or required; else
\* unknown.  Every stored Course has that word as its access.
C4_AccessWordStored ==
    \A r \in courses :
        LET tags == RawTags(r)
            a == AccessWord(tags)
            m == MembershipWord(tags)
        IN  /\ Len(r.access) > 0
            /\ r.access = Lower(Strip(r.access))
            /\ a # <<>> => r.access = a
            /\ a = s_private => r.access = s_private
            /\ a = s_yes => r.access = s_yes
            /\ (a = <<>> /\ m \in {s_yes, s_required}) => r.access = s_private
            /\ (a = <<>> /\ m \notin {s_yes, s_required}) => r.access = s_unknown
            /\ (IsNone(tags.access) /\ IsNone(tags.membership))
                  => r.access = s_unknown

\* A course tagged access=YES, padded, is stored with access yes.
C4_Witness ==
    \E r \in courses :
        /\ RawTags(r).access = Some(<<"Y","E","S"," ">>)
        /\ r.access = s_yes

----------------------------------------------------------------------------
(* Properties of the scoring store                                         *)

CourseIds == {c.id : c \in courses}
RoundIds == {r.id : r \in rounds}
SameKey(a, b) == a.round_id = b.round_id /\ a.hole_number = b.hole_number
HolesOf(round_id) == {h \in holes : h.round_id = round_id}
WrittenOf(round_id) == {w \in written : w.round_id = round_id}

\* C5: create_round with a course id that is not in the courses table
\* fails and stores no round, and so every stored round references a
\* stored course.
C5_RoundsReferenceCourses ==
    /\ (last.op = "create_round" /\ last.args.course_id \notin CourseIds)
          => ~last.ok
    /\ \A r \in rounds : r.course_id \in CourseIds

\* C6: upsert_hole with a round id that is not in the rounds table is
\* rejected, and so every stored hole references a stored round.
C6_HolesReferenceRounds ==
    /\ (last.op = "upsert_hole" /\ last.args.round_id \notin RoundIds)
          => ~last.ok
    /\ \A h \in holes : h.round_id \in RoundIds

OutOfRange(call) ==
    \/ call.strokes < 1
    \/ call.strokes > 25
    \/ call.hole_number < 1
    \/ call.hole_number > 18

\* C7: a step that calls upsert_hole with strokes outside 1..25 or a hole
\* number outside 1..18 fails and leaves the holes table as it was, the row
\* of that key included; every stored hole has its hole number in 1..18
\* and its strokes in 1..25.
C7_RejectedNotClamped ==
    [][/\ \A h \in holes' : /\ 1 <= h.hole_number /\ h.hole_number <= 18
                            /\ 1 <= h.strokes /\ h.strokes <= 25
       /\ (last'.op = "upsert_hole" /\ OutOfRange(last'.args))
             => /\ ~last'.ok
                /\ holes' = holes
                /\ written' = written]_vars

\* A call with 26 strokes was refused on a key that holds a row.
C7_Witness ==
    /\ last.op = "upsert_hole"
    /\ last.args.strokes = 26
    /\ last.args.hole_number = 5
    /\ ~last.ok
    /\ \E h \in holes : SameKey(h, last.args) /\ h.strokes = 25

\* C8 as stated: one row per (round_id, hole_number), holding the strokes,
\* putts, penalties and comment of the latest successful upsert_hole of
\* the key.
C8_LatestCallKept ==
    /\ \A a, b \in holes : SameKey(a, b) => a = b
    /\ \A w \in written : \E h \in holes : SameKey(h, w)
    /\ \A h \in holes : \E w \in written :
          /\ SameKey(h, w)
          /\ h.strokes = w.strokes
          /\ h.putts = w.putts
          /\ h.penalties = w.penalties
          /\ h.hole_comment = Some(w.comment)

\* C8 amended: one row per (round_id, hole_number), holding the strokes,
\* putts and penalties of the latest successful upsert_hole of the key and
\* its comment, an empty comment being held as no comment (NULL).
C8_LatestCallKeptOrNull ==
    /\ \A a, b \in holes : SameKey(a, b) => a = b
    /\ \A w \in written : \E h \in holes : SameKey(h, w)
    /\ \A h \in holes : \E w \in written :
          /\ SameKey(h, w)
          /\ h.strokes = w.strokes
          /\ h.putts = w.putts
          /\ h.penalties = w.penalties
          /\ h.hole_comment = IF w.comment = <<>> THEN None
                              ELSE Some(w.comment)

\* Hole 5 of round 1, written with 4 strokes by a saved card, was written
\* again with 6 strokes and a comment.
C8_Witness ==
    /\ last.op = "upsert_hole"
    /\ last.ok
    /\ last.args.strokes = 6
    /\ Cardinality(HolesOf(1)) = NumHoles
    /\ \E h \in holes : SameKey(h, last.args) /\ h.strokes = 6
                        /\ h.hole_comment = Some(Str1("x"))

\* C9 as stated: upsert_hole stores a zero of putts or penalties as
\* absent, so no stored hole has putts = 0 or penalties = 0.
C9_NoZeroStored ==
    \A h \in holes : h.putts # Some(0) /\ h.penalties # Some(0)

\* C9 amended: the save of a round passes a zero of putts or penalties to
\* upsert_hole as absent and a positive number as it is, so the holes of
\* a saved round hold no zero; upsert_hole stores what it is given, a
\* zero as 0.
C9_ZeroAbsentWhenSaved ==
    /\ (last.op = "save_round" /\ last.ok)
          => \A h \in HolesOf(Val(last.round_id)) :
                LET e == last.card[h.hole_number]
                IN  /\ h.putts = IF e.putts = 0 THEN None ELSE Some(e.putts)
                    /\ h.penalties = IF e.penalties = 0 THEN None
                                     ELSE Some(e.penalties)
    /\ (last.op = "upsert_hole" /\ last.ok)
          => \E h \in holes : /\ SameKey(h, last.args)
                              /\ h.putts = last.args.putts
                              /\ h.penalties = last.args.penalties

\* A card with zeros and positive numbers of putts and penalties was saved.
C9_Witness ==
    /\ last.op = "save_round"
    /\ last.ok
    /\ last.card = ExampleCard
    /\ Cardinality(HolesOf(Val(last.round_id))) = NumHoles

\* The sum of the strokes of a set of calls, one per hole number.
RECURSIVE SumOfCalls(_)
SumOfCalls(ws) ==
    IF ws = {} THEN 0
    ELSE LET w == CHOOSE x \in ws : TRUE
         IN  w.strokes + SumOfCalls(ws \ {w})

\* C10 as stated: the total shown for a round is the sum of the strokes of
\* the rows load_holes_df returns when the round is viewed, which is the
\* sum of the latest strokes written per hole number of the round, 73 for
\* the example card.
C10_TotalIsSumExample73 ==
    last.op = "view_round" =>
        LET ws == WrittenOf(last.round_id)
            df == load_holes_df(holes, last.round_id)
        IN  /\ last.shown = Cardinality(ws)
            /\ last.total = IF ws = {} THEN None ELSE Some(SumOfCalls(ws))
            /\ Len(df) > 0 => last.total = Some(SumStrokes(df))
            /\ (/\ Cardinality(ws) = NumHoles
                /\ \A w \in ws : w.strokes = ExampleStrokes[w.hole_number])
                  => last.total = Some(73)

\* C10 amended: the total shown for a round is the sum of the strokes of
\* the rows load_holes_df returns when the round is viewed, which is the
\* sum of the latest strokes written per hole number of the round, 74 for
\* the example card; no table holds a total.
C10_TotalIsSumAtRead ==
    last.op = "view_round" =>
        LET ws == WrittenOf(last.round_id)
            df == load_holes_df(holes, last.round_id)
        IN  /\ last.shown = Cardinality(ws)
            /\ last.total = IF ws = {} THEN None ELSE Some(SumOfCalls(ws))
            /\ Len(df) > 0 => last.total = Some(SumStrokes(df))
            /\ (/\ Cardinality(ws) = NumHoles
                /\ \A w \in ws : w.strokes = ExampleStrokes[w.hole_number])
                  => last.total = Some(74)

\* The example card was saved, hole 5 was written again with 6 strokes,
\* and the round shows 75.
C10_Witness ==
    /\ last.op = "view_round"
    /\ last.shown = NumHoles
    /\ last.total = Some(75)
    /\ \E w \in WrittenOf(last.round_id) : w.hole_number = 5 /\ w.strokes = 6

----------------------------------------------------------------------------
(* Properties of the refresh                                               *)

\* C11: a step of maybe_refresh_courses whose request fails shows the
\* error and leaves the courses table exactly as it was before the call.
C11_FailedRequestKeepsCache ==
    [][(last'.op = "maybe_refresh_courses" /\ last'.request = "failed")
          => /\ last'.msg = "error"
             /\ last'.fetched
             /\ courses' = courses
             /\ seq' = seq]_vars

\* A request failed over a cache of two courses, which are still there.
C11_Witness ==
    /\ last.op = "maybe_refresh_courses"
    /\ last.request = "failed"
    /\ last.before = 2
    /\ Cardinality(courses) = 2

\* The element el makes its statement raise: it has a name and no type.
Raises(el) == Truthy(TagsOf(el).name) /\ IsNone(el.type)

\* The elements of resp that are merged before the first one that raises.
MergedBeforeFailure(resp) ==
    {i \in 1..Len(resp) : /\ Storable(resp[i])
                          /\ \A j \in 1..i : ~Raises(resp[j])}

\* C12 as stated: when the merge of a result set fails at its k-th
\* element, the elements merged before it stay in the table, inserted or
\* updated.
C12_MergedBeforeFailureKept ==
    \A resp \in Responses :
        LET r == upsert_courses(courses, seq.courses, resp, now)
        IN  ~r.ok =>
               \A i \in MergedBeforeFailure(resp) :
                  \E c \in r.rows :
                     /\ CourseKey(c) = <<Val(resp[i].type), resp[i].id>>
                     /\ c.updated_at_utc = utc_now_iso(now)

\* C12 amended: the merge of a result set is all or nothing.  It fails
\* when one of its named elements raises, and then no element of the
\* result set is persisted, those merged before the failure included: the
\* courses table is what it was before the refresh.  When it does not
\* fail, every storable element is in the table.
C12_MergeAllOrNothing ==
    /\ \A resp \in Responses :
          \A r \in {upsert_courses(courses, seq.courses, resp, now)} :
              /\ ~r.ok <=> \E i \in 1..Len(resp) : Raises(resp[i])
              /\ ~r.ok => r.rows = courses /\ r.seq = seq.courses
              /\ r.ok => \A i \in MergedBeforeFailure(resp) :
                            <<Val(resp[i].type), resp[i].id>>
                                \in CourseKeys(r.rows)
    /\ (/\ last.op = "maybe_refresh_courses"
        /\ last.request = "answered"
        /\ last.msg = "error")
          => Cardinality(courses) = last.before

\* A merge failed over a cache of two courses written at second 0, a full
\* TTL later: both rows are as they were.
C12_Witness ==
    /\ last.op = "maybe_refresh_courses"
    /\ last.request = "answered"
    /\ last.msg = "error"
    /\ last.before = 2
    /\ now >= COURSE_CACHE_TTL_SEC * TicksPerSec
    /\ Cardinality(courses) = 2
    /\ \A c \in courses : c.updated_at_utc = 0

\* The keys of the elements of a result set that are stored.
StorableKeys(elements) ==
    {<<Val(elements[i].type), elements[i].id>> :
        i \in {j \in 1..Len(elements) : Storable(elements[j])}}

\* C13: with the merges of two refreshes under way at the same time, over
\* result sets that share keys, the courses table never holds two rows
\* with the same (osm_type, osm_id); a merge that commits adds exactly the
\* keys of its storable elements to the keys of the table, so that the
\* keys of the table are the union of the keys merged; and merging two
\* result sets in either order gives the same keys.
C13_ConcurrentMergesNoDuplicates ==
    [][/\ NoDuplicateCourses(courses')
       /\ \A c \in Connections : NoDuplicateCourses(conns'[c].rows)
       /\ (last'.op = "upsert_courses" /\ last'.ok)
             => /\ last'.keys = StorableKeys(last'.elements)
                /\ CourseKeys(courses') = CourseKeys(courses) \cup last'.keys
       /\ (last'.op = "upsert_courses" /\ ~last'.ok) => courses' = courses
       /\ \A e1, e2 \in ConcResponses :
             LET a1 == upsert_courses(courses, seq.courses, e1, now)
                 a2 == upsert_courses(a1.rows, a1.seq, e2, now)
                 b1 == upsert_courses(courses, seq.courses, e2, now)
                 b2 == upsert_courses(b1.rows, b1.seq, e1, now)
             IN  (a1.ok /\ b1.ok)
                    => /\ a2.ok /\ b2.ok
                       /\ CourseKeys(a2.rows) = CourseKeys(b2.rows)
                       /\ CourseKeys(a2.rows) = CourseKeys(courses)
                             \cup StorableKeys(e1) \cup StorableKeys(e2)]_vars

\* Session s2 has committed the node under its new name over the node and
\* the way that s1 committed, while s1 is merging again: one row per key.
C13_Witness ==
    /\ last.op = "upsert_courses"
    /\ last.ok
    /\ last.conn = "s2"
    /\ last.keys = {<<"node", 1>>}
    /\ conns["s1"].pc = "merging"
    /\ conns["s1"].i > 1
    /\ CourseKeys(courses) = {<<"node", 1>>, <<"way", 1>>}
    /\ Cardinality(courses) = 2
    /\ \E r \in courses : r.osm_type = "node" /\ r.name = Str1("B")

\* C14: no refresh deletes a course: whatever the service answers, every
\* cached key stays cached, and a course whose key is not among the stored
\* elements of the answer keeps its row with every field, updated_at
\* included; the number of cached courses never goes down.
C14_NoCourseDeleted ==
    /\ \A resp \in Responses :
          \A r \in {upsert_courses(courses, seq.courses, resp, now)} :
              /\ CourseKeys(courses) \subseteq CourseKeys(r.rows)
              /\ \A c \in courses :
                    CourseKey(c) \notin StorableKeys(resp) => c \in r.rows
    /\ last.op = "maybe_refresh_courses"
          => Cardinality(courses) >= last.before

\* A TTL after the node and the way were cached, a refresh has stored the
\* node alone: the way is still cached, as it was written at second 0.
C14_Witness ==
    /\ last.op = "maybe_refresh_courses"
    /\ last.msg = "refreshed"
    /\ last.count = 1
    /\ last.before = 2
    /\ \E c \in courses : c.osm_type = "way" /\ c.updated_at_utc = 0
    /\ \E c \in courses :
          c.osm_type = "node" /\ c.updated_at_utc = COURSE_CACHE_TTL_SEC

\* The element el has a name: its name tag is there and is not empty.
Named(el) == Truthy(TagsOf(el).name)

\* C15: an element whose name tag is missing or empty is not stored and
\* does not change what the merge of its result set does: a merge that
\* commits has stored one row per key of a named element and counts the
\* named elements, and the merge gives the table, the count and the
\* outcome it gives on the named elements alone; every stored course has a
\* non-empty name.
C15_UnnamedSkipped ==
    /\ \A c \in courses : Len(c.name) > 0
    /\ \A s \in Connections : \A c \in conns[s].rows : Len(c.name) > 0
    /\ (last.op = "upsert_courses" /\ last.ok)
          => /\ last.count = Len(SelectSeq(last.elements, Named))
             /\ last.keys = StorableKeys(last.elements)
             /\ last.keys \subseteq CourseKeys(courses)
    /\ \A resp \in ConcResponses :
          \A r \in {upsert_courses(courses, seq.courses, resp, now)} :
              /\ r = upsert_courses(courses, seq.courses,
                                    SelectSeq(resp, Named), now)
              /\ \A c \in r.rows : Len(c.name) > 0
              /\ r.ok => /\ r.updated = Len(SelectSeq(resp, Named))
                         /\ CourseKeys(r.rows) =
                               CourseKeys(courses) \cup StorableKeys(resp)

\* The way without a name and the node were merged into an empty cache:
\* the node alone is stored.
C15_Witness ==
    /\ last.op = "upsert_courses"
    /\ last.ok
    /\ last.elements = <<WayUnnamed, NodeA>>
    /\ last.count = 1
    /\ CourseKeys(courses) = {<<"node", 1>>}

\* The next call of maybe_refresh_courses, made now without force, uses
\* the cache and makes no request.
NextCallIsCacheHit == cache_is_fresh(courses_last_updated(courses), now)

\* C18 as stated: right after a maybe_refresh_courses that made the
\* request and returned without error, a call without force is a cache
\* hit, also when the answer held no storable element or only some of the
\* cached courses.
C18_HitAfterRefresh ==
    (last.op = "maybe_refresh_courses" /\ last.msg = "refreshed")
       => NextCallIsCacheHit

\* C18 amended: right after a maybe_refresh_courses that made the request,
\* returned without error and stored at least one element, a call without
\* force is a cache hit, also when the answer held only some of the cached
\* courses.  When the answer held no storable element no row is written:
\* the newest updated_at is what it was, and the next call is a cache hit
\* only if the cache was fresh before, so not after a refresh that was not
\* forced.
C18_HitAfterRefreshThatStored ==
    (last.op = "maybe_refresh_courses" /\ last.msg = "refreshed")
       => /\ last.count > 0 => NextCallIsCacheHit
          /\ last.count = 0
                => /\ courses_last_updated(courses) = last.lastmax
                   /\ NextCallIsCacheHit = cache_is_fresh(last.lastmax, now)
                   /\ ~last.force => ~NextCallIsCacheHit

\* A TTL after two courses were cached, a refresh that was not forced has
\* stored one of them: the other row is a TTL old and the next call is a
\* cache hit.
C18_Witness ==
    /\ last.op = "maybe_refresh_courses"
    /\ last.msg = "refreshed"
    /\ ~last.force
    /\ last.count = 1
    /\ last.before = 2
    /\ \E c \in courses : c.updated_at_utc = 0
    /\ now >= COURSE_CACHE_TTL_SEC * TicksPerSec
    /\ NextCallIsCacheHit

\* The external keys of the courses a round references.
Referent(course_rows, r) ==
    {<<c.osm_type, c.osm_id>> : c \in {d \in course_rows : d.id = r.course_id}}

\* C19: a refresh leaves the rounds and the holes tables as they are and
\* keeps the id of every course that is cached, giving the id of a cached
\* course to no other row; so every round that references a course
\* references the course of the same external key after the refresh.
C19_RoundsKeepCourse ==
    [][last'.op = "maybe_refresh_courses"
          => /\ rounds' = rounds
             /\ holes' = holes
             /\ \A c \in courses : \E d \in courses' :
                    /\ d.id = c.id
                    /\ d.osm_type = c.osm_type
                    /\ d.osm_id = c.osm_id
             /\ \A d1, d2 \in courses' : d1.id = d2.id => d1 = d2
             /\ \A r \in rounds :
                    Referent(courses, r) # {}
                       => Referent(courses', r) = Referent(courses, r)]_vars

\* A refresh has just re-synchronized, and only re-synchronized, courses
\* of a cache on which a round with holes was saved earlier.
C19_Witness ==
    /\ last.op = "maybe_refresh_courses"
    /\ last.msg = "refreshed"
    /\ last.count >= 1
    /\ last.before = Cardinality(courses)
    /\ \E r \in rounds, c \in courses :
          /\ c.id = r.course_id
          /\ c.updated_at_utc > r.created_at_utc
          /\ \E h \in holes : h.round_id = r.id

----------------------------------------------------------------------------
(* Properties of the save-round flow                                       *)

\* The round just saved references the course of the selected entry.
SelectedCourseReferenced ==
    \E r \in rounds : r.id = Val(last.round_id) /\ r.course_id = last.entry

\* The round just saved has one hole row for each of the numbers 1..18.
EighteenHolesSaved ==
    \A n \in 0..(NumHoles + 1) :
       Cardinality({h \in holes : h.round_id = Val(last.round_id)
                                    /\ h.hole_number = n})
          = IF n \in 1..NumHoles THEN 1 ELSE 0

\* C20: after a save from the form that completes without error, the new
\* round references the cached course whose entry was selected in the
\* listing, whatever the cache holds, and has exactly 18 hole rows,
\* numbered 1..18.
C20_SavedOnSelectedCourse ==
    (last.op = "save_selected" /\ last.ok)
       => SelectedCourseReferenced /\ EighteenHolesSaved

\* The part of C20 the code keeps: the 18 hole rows of the saved round.
SavedRoundHasEighteenHoles ==
    (last.op = "save_selected" /\ last.ok) => EighteenHolesSaved

\* The part of C20 the code keeps: the round is on the selected course
\* when no other listed course carries the text of the selected entry.
SavedOnSelectedWhenLabelUnique ==
    (last.op = "save_selected" /\ last.ok)
       => \/ SelectedCourseReferenced
          \/ \E c, d \in courses :
                /\ c.id = last.entry
                /\ d.id = last.course_id
                /\ c # d
                /\ dropdown_label(c) = dropdown_label(d)

----------------------------------------------------------------------------
(* Properties of the listings                                              *)

\* C16: load_rounds_df returns every stored round exactly once, with the
\* name of its course, by play date descending and, on one play date, by
\* round id descending.
C16_EveryRoundListedOnce ==
    LET df == load_rounds_df(rounds, courses)
    IN  /\ \A r \in rounds :
              Cardinality({i \in 1..Len(df) : df[i].round_id = r.id}) = 1
        /\ \A i \in 1..Len(df) :
              \E r \in rounds, c \in courses :
                 /\ r.id = df[i].round_id
                 /\ c.id = r.course_id
                 /\ df[i].course = c.name
                 /\ df[i].played_on = r.played_on
        /\ \A i, j \in 1..Len(df) :
              i < j => \/ df[i].played_on > df[j].played_on
                       \/ /\ df[i].played_on = df[j].played_on
                          /\ df[i].round_id > df[j].round_id

\* The characters of names without upper-case ASCII letters, in the order
\* of their code points.
Alphabet == <<" ">> \o LowerChars \o <<"É", "é">>
AlphabetIndex(c) == CHOOSE i \in 1..Len(Alphabet) : Alphabet[i] = c

\* a comes no later than b, character by character in the order of the
\* alphabet, a prefix first.
RECURSIVE DictionaryLeq(_, _)
DictionaryLeq(a, b) ==
    IF Len(a) = 0 THEN TRUE
    ELSE IF Len(b) = 0 THEN FALSE
    ELSE IF a[1] = b[1] THEN DictionaryLeq(Tail(a), Tail(b))
    ELSE AlphabetIndex(a[1]) < AlphabetIndex(b[1])

\* The label a stored access classifies to.
Classify(access) ==
    IF access = s_private THEN "Private"
    ELSE IF access \in {s_yes, s_permissive, s_customers}
    THEN "Public/Playable"
    ELSE "Unknown"

\* The listing last.df holds exactly the cached courses whose stored access
\* classifies to one of the labels of last.filter, each once, and every
\* cached course when the filter has all three labels.
ListingExact ==
    LET df == last.df
        want == {c \in courses : Classify(c.access) \in last.filter}
    IN  /\ Len(df) = Cardinality(want)
        /\ {df[i].id : i \in 1..Len(df)} = {c.id : c \in want}
        /\ \A i \in 1..Len(df) :
              \E c \in want : /\ c.id = df[i].id
                              /\ c.name = df[i].name
                              /\ c.access = df[i].access
                              /\ df[i].access_label = Classify(c.access)
        /\ last.filter = AccessLabels => Len(df) = Cardinality(courses)

\* C17 as stated: the course listing restricted to a set of access labels
\* holds exactly the cached courses whose stored access classifies to one
\* of the labels, each once, in the order of their names without regard to
\* case; restricted to all three labels it holds every cached course.
C17_ListingCaseInsensitive ==
    last.op = "load_courses_df" =>
        /\ ListingExact
        /\ \A i, j \in 1..Len(last.df) :
              i < j => DictionaryLeq(Lower(last.df[i].name),
                                     Lower(last.df[j].name))

====
